---- MODULE Spec2Model ----
(***************************************************************************)
(* The poll pipeline of flood-disaster-crawl (src/src/main.rs):            *)
(* fetch the remote listing, diff it against the sqlite table `content`,   *)
(* insert the new ids, refresh the OAuth credential, notify the chat.      *)
(* One behaviour is a sequence of process invocations (runs) over the same *)
(* durable state: the table, credentials.json and secrets.json.            *)
(***************************************************************************)
EXTENDS Integers, Sequences, FiniteSets, TLC

\* ------------------------------------------------------------------ bounds
\* Longest remote listing that is enumerated.
MaxFiles == 2
\* Number of process invocations in one behaviour.
MaxRuns == 2

\* --------------------------------------------------------- ids and parsing
\* A FileDetail.id is a String; it is modelled as its sequence of characters.
\* The other two fields (subject, link_download) decide nothing in main.rs
\* but the payload of the chat message: a file is identified by its position
\* in the listing.
IdPool == { <<"7">>, <<"1", "2">>, <<"a", "b">> }

Digits == {"0", "1", "2", "3", "4", "5", "6", "7", "8", "9"}

DigitVal(c) ==
    CASE c = "0" -> 0 [] c = "1" -> 1 [] c = "2" -> 2 [] c = "3" -> 3
      [] c = "4" -> 4 [] c = "5" -> 5 [] c = "6" -> 6 [] c = "7" -> 7
      [] c = "8" -> 8 [] c = "9" -> 9

I32Max == 2147483647

ParseErr == [ok |-> FALSE, val |-> 0]

\* The digit loop of str::parse::<i32>: checked_mul by 10, then checked_add
\* (checked_sub for a negative number) of the digit.
RECURSIVE ParseDigits(_, _, _)
ParseDigits(ds, acc, neg) ==
    IF ds = <<>> THEN [ok |-> TRUE, val |-> acc]
    ELSE IF Head(ds) \notin Digits THEN ParseErr
    ELSE LET d == DigitVal(Head(ds)) IN
         IF neg
         THEN IF acc < -(I32Max \div 10) THEN ParseErr
              ELSE IF acc * 10 < (-I32Max - 1) + d THEN ParseErr
              ELSE ParseDigits(Tail(ds), acc * 10 - d, neg)
         ELSE IF acc > I32Max \div 10 THEN ParseErr
              ELSE IF acc * 10 > I32Max - d THEN ParseErr
              ELSE ParseDigits(Tail(ds), acc * 10 + d, neg)

\* A parse that knows no sign, as parse::<u32> would.
ParseI32Unsigned(s) ==
    IF s = <<>> THEN ParseErr ELSE ParseDigits(s, 0, FALSE)

\* id.parse::<i32>(): an optional sign, then at least one digit.
ParseI32(s) ==
    IF s = <<>> THEN ParseErr
    ELSE IF Head(s) \in {"+", "-"}
         THEN IF Len(s) = 1 THEN ParseErr
              ELSE ParseDigits(Tail(s), 0, Head(s) = "-")
         ELSE ParseDigits(s, 0, FALSE)

\* .unwrap_or_else(|_| 0i32)
UnwrapOrZero(r) == IF r.ok THEN r.val ELSE 0

\* A lookup under another key than the one the row is stored under.
QueryBindShifted(id) == UnwrapOrZero(ParseI32(id)) + 1

\* The value bound to `WHERE id = ?` in query_by_id.
QueryBind(id) == UnwrapOrZero(ParseI32(id))

\* Every row stored under the same key.
InsertBindZero(id) == 0

\* The value bound to the id column in insert_file.
InsertBind(id) == UnwrapOrZero(ParseI32(id))

\* new_files returned in discovery order.
NoReverse(s) == s

\* new_files.reverse()
RECURSIVE Reverse(_)
Reverse(s) == IF s = <<>> THEN <<>> ELSE Append(Reverse(Tail(s)), Head(s))

\* The listings of at most n files with ids from pool.
RECURSIVE SeqsOver(_, _)
SeqsOver(pool, n) ==
    IF n = 0 THEN {<<>>}
    ELSE LET shorter == SeqsOver(pool, n - 1) IN
         shorter \cup {Append(s, x) : s \in {t \in shorter : Len(t) = n - 1}, x \in pool}

SeqsUpTo(n) == SeqsOver(IdPool, n)

\* What the catalog endpoint can serve: data.file_list, in the remote's order.
Listings == SeqsUpTo(MaxFiles)

\* Ids at the edges of the coercion: not a number, the literal 0, a negative
\* number, i32::MIN, and two numerals outside the 32-bit range.
EdgeIdPool ==
    { <<"x">>, <<"0">>, <<"-", "3">>,
      <<"-", "2", "1", "4", "7", "4", "8", "3", "6", "4", "8">>,
      <<"2", "1", "4", "7", "4", "8", "3", "6", "4", "8">>,
      <<"9", "9", "9", "9", "9", "9", "9", "9", "9", "9", "9">> }

EdgeListings == SeqsOver(EdgeIdPool, MaxFiles)

\* ------------------------------------------------------------------- state
VARIABLES
    \* durable state, shared by all runs
    content,        \* ids of the rows of table `content` (sqlite.db)
    credFile,       \* credentials.json: [ok, access_token]
    secretsOk,      \* secrets.json exists and parses
    \* environment
    remote,         \* the listing the catalog serves during this run
    issued,         \* number of access tokens the identity provider issued
    \* one run of main
    run,            \* number of this invocation
    pc,             \* position in main
    exitCode,       \* process exit status, meaningful when pc = "done"
    file_list,      \* Vec<FileDetail> returned by fetch_json
    idx,            \* position of check_new_id's loop in file_list
    new_files,      \* Vec<FileDetail> built by check_new_id (listing positions)
    sendIdx,        \* position of main's notify loop in new_files
    \* history of this run
    found,          \* listing positions for which query_by_id said absent, in that order
    insertErr,      \* listing positions whose insert_file returned Err
    notified,       \* the POSTs to the chat endpoint: [file, token, status]
    events,         \* requests sent and credential writes, in order
    refreshCalls,   \* calls of refresh_token
    tokenResp,      \* status of the token endpoint's answer, 0 when none
    granted,        \* access token in the token endpoint's answer, 0 when none
    failed,         \* pipeline stages at which an operation failed
    contentAtStart, \* content when the run started
    credAtStart,    \* credFile when the run started
    diffDone,       \* check_new_id returned
    \* history across runs
    sameListing,    \* remote is unchanged since the previous run
    prevDiffDone,   \* the previous run's check_new_id returned
    prevExit,       \* the previous run's exit status
    \* a second invocation of the program that overlaps this one
    pcB,            \* its position in main, "off" when there is none
    idxB,           \* position of its check_new_id loop in the listing
    newB,           \* its new_files, the part not yet notified
    dupB,           \* listing positions whose INSERT met an existing key
    notifiedB       \* its POSTs to the chat endpoint: [file, status]

durable == <<content, credFile, secretsOk>>
env == <<remote, issued>>
local == <<run, pc, exitCode, file_list, idx, new_files, sendIdx>>
hist == <<found, insertErr, notified, events, refreshCalls, tokenResp, granted,
          failed, contentAtStart, credAtStart, diffDone, sameListing,
          prevDiffDone, prevExit>>
other == <<pcB, idxB, newB, dupB, notifiedB>>
vars == <<durable, env, local, hist, other>>

\* The start of an invocation, with the catalog serving one of `listings`
\* and the table holding one of `tables`.
InitOver(listings, tables) ==
    /\ content \in tables
    /\ credFile \in {[ok |-> TRUE, access_token |-> 0], [ok |-> FALSE, access_token |-> 0]}
    /\ secretsOk \in BOOLEAN
    /\ remote \in listings
    /\ issued = 0
    /\ run = 1
    /\ pc = "init"
    /\ exitCode = 0
    /\ file_list = <<>>
    /\ idx = 1
    /\ new_files = <<>>
    /\ sendIdx = 1
    /\ found = <<>>
    /\ insertErr = {}
    /\ notified = <<>>
    /\ events = <<>>
    /\ refreshCalls = 0
    /\ tokenResp = 0
    /\ granted = 0
    /\ failed = {}
    /\ contentAtStart = content
    /\ credAtStart = credFile
    /\ diffDone = FALSE
    /\ sameListing = FALSE
    /\ prevDiffDone = FALSE
    /\ prevExit = 0
    /\ idxB = 1
    /\ newB = <<>>
    /\ dupB = {}
    /\ notifiedB = <<>>

\* The first invocation: init_db has just created sqlite.db.
Init == InitOver(Listings, {{}}) /\ pcB = "off"

\* A failed step that is tried again instead of ending the process.
RetryStep(stage) ==
    /\ pc' = pc
    /\ exitCode' = exitCode
    /\ failed' = failed \cup {stage}

\* panic!(...) and the unwrap()/expect() panics: the process ends with
\* status 101 at the point of failure.
Panic(stage) ==
    /\ pc' = "done"
    /\ exitCode' = 101
    /\ failed' = failed \cup {stage}

\* ----------------------------------------------------------------- main
\* init_log, init_db, migrate_db: any Err is a panic.
Startup ==
    /\ pc = "init"
    /\ \E outcome \in {"ok", "err"} :
         IF outcome = "ok"
         THEN /\ pc' = "fetch"
              /\ UNCHANGED <<exitCode, failed>>
         ELSE Panic("startup")
    /\ UNCHANGED <<durable, env, run, file_list, idx, new_files, sendIdx>>
    /\ UNCHANGED <<found, insertErr, notified, events, refreshCalls, tokenResp,
                   granted, contentAtStart, credAtStart, diffDone, sameListing,
                   prevDiffDone, prevExit>>
    /\ UNCHANGED other

\* fetch_json and main's match on it: one GET; a transport error is an Err
\* (panic! in main), a body without data.file_list panics in place.
FetchJson ==
    /\ pc = "fetch"
    /\ events' = Append(events, "catalog")
    /\ \E outcome \in {"ok", "transport", "malformed"} :
         IF outcome = "ok"
         THEN /\ file_list' = remote
              /\ idx' = 1
              /\ pc' = "diff"
              /\ UNCHANGED <<exitCode, failed>>
         ELSE /\ Panic("fetch")
              /\ UNCHANGED <<file_list, idx>>
    /\ UNCHANGED <<durable, env, run, new_files, sendIdx>>
    /\ UNCHANGED <<found, insertErr, notified, refreshCalls, tokenResp, granted,
                   contentAtStart, credAtStart, diffDone, sameListing,
                   prevDiffDone, prevExit>>
    /\ UNCHANGED other

\* A lookup that never finds a row.
RowExistsNever(id) == FALSE

\* SELECT * FROM content WHERE id = ? : Some(row) or None.
RowExists(id) == QueryBind(id) \in content

\* One turn of check_new_id's loop up to its insert: query_by_id(..).unwrap().
QueryById ==
    /\ pc = "diff"
    /\ idx <= Len(file_list)
    /\ \E outcome \in {"ok", "err"} :
         IF outcome = "err"
         THEN /\ Panic("lookup")
              /\ UNCHANGED <<idx, found>>
         ELSE IF RowExists(file_list[idx])
         THEN /\ idx' = idx + 1
              /\ UNCHANGED <<pc, exitCode, failed, found>>
         ELSE /\ pc' = "insert"
              /\ found' = Append(found, idx)
              /\ UNCHANGED <<idx, exitCode, failed>>
    /\ UNCHANGED <<durable, env, run, file_list, new_files, sendIdx>>
    /\ UNCHANGED <<insertErr, notified, events, refreshCalls, tokenResp, granted,
                   contentAtStart, credAtStart, diffDone, sameListing,
                   prevDiffDone, prevExit>>
    /\ UNCHANGED other

\* The insert with its Result unwrapped: an Err ends the run.
InsertFileFatal ==
    /\ pc = "insert"
    /\ \E outcome \in {"ok", "err"} :
         LET key == InsertBind(file_list[idx])
             inserted == outcome = "ok" /\ key \notin content
         IN  IF inserted
             THEN /\ content' = content \cup {key}
                  /\ new_files' = Append(new_files, idx)
                  /\ idx' = idx + 1
                  /\ pc' = "diff"
                  /\ UNCHANGED <<insertErr, exitCode, failed>>
             ELSE /\ Panic("insert")
                  /\ insertErr' = insertErr \cup {idx}
                  /\ UNCHANGED <<content, new_files, idx>>
    /\ UNCHANGED <<credFile, secretsOk, env, run, file_list, sendIdx>>
    /\ UNCHANGED <<found, notified, events, refreshCalls, tokenResp, granted,
                   contentAtStart, credAtStart, diffDone, sameListing,
                   prevDiffDone, prevExit>>
    /\ UNCHANGED other

\* The rest of the turn: `let _ = insert_file(pool, &file).await;` and the
\* push. The INSERT fails on a storage error and on a primary key that is
\* already there; the Result is dropped either way.
InsertFile ==
    /\ pc = "insert"
    /\ \E outcome \in {"ok", "err"} :
         LET key == InsertBind(file_list[idx])
             inserted == outcome = "ok" /\ key \notin content
         IN  /\ content' = IF inserted THEN content \cup {key} ELSE content
             /\ insertErr' = IF inserted THEN insertErr ELSE insertErr \cup {idx}
    /\ new_files' = Append(new_files, idx)
    /\ idx' = idx + 1
    /\ pc' = "diff"
    /\ UNCHANGED <<credFile, secretsOk, env, run, exitCode, file_list, sendIdx>>
    /\ UNCHANGED <<found, notified, events, refreshCalls, tokenResp, granted,
                   failed, contentAtStart, credAtStart, diffDone, sameListing,
                   prevDiffDone, prevExit>>
    /\ UNCHANGED other

\* main without its early exit.
NothingNewIgnored == FALSE

\* new_file_list.len() == 0
NothingNew == Len(new_files) = 0

\* The end of check_new_id (reverse, return) and main's decision on the
\* result: exit(0) when nothing is new.
CheckDone ==
    /\ pc = "diff"
    /\ idx > Len(file_list)
    /\ new_files' = Reverse(new_files)
    /\ diffDone' = TRUE
    /\ IF NothingNew
       THEN /\ pc' = "done"
            /\ exitCode' = 0
       ELSE /\ pc' = "refresh"
            /\ UNCHANGED exitCode
    /\ sendIdx' = 1
    /\ UNCHANGED <<durable, env, run, file_list, idx>>
    /\ UNCHANGED <<found, insertErr, notified, events, refreshCalls, tokenResp,
                   granted, failed, contentAtStart, credAtStart, sameListing,
                   prevDiffDone, prevExit>>
    /\ UNCHANGED other

\* What the token endpoint can answer. The identity provider answers a
\* refresh_token grant with the credential document on success and with an
\* error document otherwise; a gateway may answer with no JSON at all.
TokenAnswers ==
    { [status |-> 200, body |-> "credentials"],
      [status |-> 400, body |-> "error_json"],
      [status |-> 502, body |-> "not_json"] }

\* refresh_token and main's match on it.
RefreshToken ==
    /\ pc = "refresh"
    /\ refreshCalls' = refreshCalls + 1
    /\ IF ~secretsOk \/ ~credFile.ok
       THEN \* read_secrets().await.unwrap() / read_credentials().await.unwrap()
            /\ Panic("config")
            /\ UNCHANGED <<credFile, issued, events, tokenResp, granted>>
       ELSE \/ \* .send().await? : no response
               /\ events' = Append(events, "token")
               /\ Panic("refresh")
               /\ UNCHANGED <<credFile, issued, tokenResp, granted>>
            \/ \E ans \in TokenAnswers :
                 /\ tokenResp' = ans.status
                 /\ IF ans.body # "credentials"
                    THEN \* from_str(&body).unwrap() / from_value(json).unwrap()
                         /\ events' = Append(events, "token")
                         /\ Panic("refresh")
                         /\ UNCHANGED <<credFile, issued, granted>>
                    ELSE /\ issued' = issued + 1
                         /\ granted' = issued + 1
                         /\ \E io \in {"ok", "create_err", "write_err"} :
                              CASE io = "ok" ->
                                     /\ credFile' = [ok |-> TRUE, access_token |-> issued + 1]
                                     /\ events' = events \o <<"token", "save">>
                                     /\ pc' = "notify"
                                     /\ UNCHANGED <<exitCode, failed>>
                                [] io = "create_err" ->
                                     \* File::create(CREDENTIALS).unwrap()
                                     /\ events' = Append(events, "token")
                                     /\ Panic("refresh")
                                     /\ UNCHANGED credFile
                                [] io = "write_err" ->
                                     \* the file is truncated, to_writer(..).unwrap() panics
                                     /\ credFile' = [ok |-> FALSE, access_token |-> 0]
                                     /\ events' = Append(events, "token")
                                     /\ Panic("refresh")
    /\ UNCHANGED <<content, secretsOk, remote, run, file_list, idx, new_files, sendIdx>>
    /\ UNCHANGED <<found, insertErr, notified, contentAtStart, credAtStart,
                   diffDone, sameListing, prevDiffDone, prevExit>>
    /\ UNCHANGED other

\* The credential read once at startup and kept for the whole run.
BearerTokenAtStart == credAtStart.access_token

\* read_credentials() in send_message, then "Bearer {access_token}".
BearerToken == credFile.access_token

\* Statuses the chat endpoint can answer with.
ChatStatuses == {201, 401}

\* One turn of main's loop over new_file_list: send_message and the match.
\* send_message is Ok(()) as soon as a response and its body arrived,
\* whatever the status of the response.
SendMessage ==
    /\ pc = "notify"
    /\ sendIdx <= Len(new_files)
    /\ IF ~secretsOk \/ ~credFile.ok
       THEN /\ Panic("config")
            /\ UNCHANGED <<notified, events, sendIdx>>
       ELSE /\ events' = Append(events, "chat")
            /\ \/ \* .send().await? / res.text().await? : Err, panic! in main
                  /\ notified' = Append(notified,
                        [file |-> new_files[sendIdx], token |-> BearerToken, status |-> 0])
                  /\ Panic("notify")
                  /\ UNCHANGED sendIdx
               \/ \E st \in ChatStatuses :
                    /\ notified' = Append(notified,
                          [file |-> new_files[sendIdx], token |-> BearerToken, status |-> st])
                    /\ sendIdx' = sendIdx + 1
                    /\ UNCHANGED <<pc, exitCode, failed>>
    /\ UNCHANGED <<durable, env, run, file_list, idx, new_files>>
    /\ UNCHANGED <<found, insertErr, refreshCalls, tokenResp, granted,
                   contentAtStart, credAtStart, diffDone, sameListing,
                   prevDiffDone, prevExit>>
    /\ UNCHANGED other

\* main returns after the loop: status 0.
MainReturn ==
    /\ pc = "notify"
    /\ sendIdx > Len(new_files)
    /\ pc' = "done"
    /\ exitCode' = 0
    /\ UNCHANGED <<durable, env, run, file_list, idx, new_files, sendIdx, hist>>
    /\ UNCHANGED other

\* The scheduler starts the next invocation after this one ended; the remote
\* listing may have changed in between.
NextRunOver(listings) ==
    /\ pc = "done"
    /\ run < MaxRuns
    /\ run' = run + 1
    /\ \E l \in listings :
         /\ remote' = l
         /\ sameListing' = (l = remote /\ file_list = remote)
    /\ prevDiffDone' = diffDone
    /\ prevExit' = exitCode
    /\ pc' = "init"
    /\ exitCode' = 0
    /\ file_list' = <<>>
    /\ idx' = 1
    /\ new_files' = <<>>
    /\ sendIdx' = 1
    /\ found' = <<>>
    /\ insertErr' = {}
    /\ notified' = <<>>
    /\ events' = <<>>
    /\ refreshCalls' = 0
    /\ tokenResp' = 0
    /\ granted' = 0
    /\ failed' = {}
    /\ contentAtStart' = content
    /\ credAtStart' = credFile
    /\ diffDone' = FALSE
    /\ UNCHANGED <<durable, issued>>
    /\ UNCHANGED other

NextRun == NextRunOver(Listings)

Next ==
    \/ Startup
    \/ FetchJson
    \/ QueryById
    \/ InsertFile
    \/ CheckDone
    \/ RefreshToken
    \/ SendMessage
    \/ MainReturn
    \/ NextRun

Spec == Init /\ [][Next]_vars

\* One invocation against a catalog that serves the edge ids, over a table
\* left by earlier invocations against that catalog.
EdgeKeys == {InsertBind(id) : id \in EdgeIdPool}

InitEdge == InitOver(EdgeListings, SUBSET EdgeKeys) /\ pcB = "off"

NextEdge ==
    \/ Startup
    \/ FetchJson
    \/ QueryById
    \/ InsertFile
    \/ CheckDone
    \/ RefreshToken
    \/ SendMessage
    \/ MainReturn

SpecEdge == InitEdge /\ [][NextEdge]_vars

\* One invocation over any table earlier invocations can have left. main is
\* the only task of the runtime and every call it awaits returns with one of
\* its outcomes, so a step that is enabled is eventually taken.
Keys == {InsertBind(id) : id \in IdPool}

InitOne == InitOver(Listings, SUBSET Keys) /\ pcB = "off"

SpecFair == InitOne /\ [][NextEdge]_vars /\ WF_vars(NextEdge)

\* ------------------------------------------- an overlapping invocation
\* The same main, run by a second process over the same sqlite.db,
\* credentials.json and catalog while the first is under way. Its steps are
\* those of the first; of its history only the notify calls and the
\* duplicate-key errors are kept.
OtherStartup ==
    /\ pcB = "init"
    /\ \E outcome \in {"ok", "err"} :
         pcB' = IF outcome = "ok" THEN "fetch" ELSE "done"
    /\ UNCHANGED <<durable, env, local, hist, idxB, newB, dupB, notifiedB>>

OtherFetchJson ==
    /\ pcB = "fetch"
    /\ \E outcome \in {"ok", "transport", "malformed"} :
         pcB' = IF outcome = "ok" THEN "diff" ELSE "done"
    /\ idxB' = 1
    /\ UNCHANGED <<durable, env, local, hist, newB, dupB, notifiedB>>

OtherQueryById ==
    /\ pcB = "diff"
    /\ idxB <= Len(remote)
    /\ \E outcome \in {"ok", "err"} :
         IF outcome = "err"
         THEN pcB' = "done" /\ UNCHANGED idxB
         ELSE IF RowExists(remote[idxB])
         THEN idxB' = idxB + 1 /\ UNCHANGED pcB
         ELSE pcB' = "insert" /\ UNCHANGED idxB
    /\ UNCHANGED <<durable, env, local, hist, newB, dupB, notifiedB>>

OtherInsertFile ==
    /\ pcB = "insert"
    /\ \E outcome \in {"ok", "err"} :
         LET key == InsertBind(remote[idxB])
         IN  /\ content' = IF outcome = "ok" THEN content \cup {key} ELSE content
             /\ dupB' = IF outcome = "ok" /\ key \in content
                        THEN dupB \cup {idxB} ELSE dupB
    /\ newB' = Append(newB, idxB)
    /\ idxB' = idxB + 1
    /\ pcB' = "diff"
    /\ UNCHANGED <<credFile, secretsOk, env, local, hist, notifiedB>>

OtherCheckDone ==
    /\ pcB = "diff"
    /\ idxB > Len(remote)
    /\ newB' = Reverse(newB)
    /\ pcB' = IF Len(newB) = 0 THEN "done" ELSE "refresh"
    /\ UNCHANGED <<durable, env, local, hist, idxB, dupB, notifiedB>>

OtherRefreshToken ==
    /\ pcB = "refresh"
    /\ IF ~secretsOk \/ ~credFile.ok
       THEN /\ pcB' = "done"
            /\ UNCHANGED <<credFile, issued>>
       ELSE \/ /\ pcB' = "done"
               /\ UNCHANGED <<credFile, issued>>
            \/ \E ans \in TokenAnswers :
                 IF ans.body # "credentials"
                 THEN /\ pcB' = "done"
                      /\ UNCHANGED <<credFile, issued>>
                 ELSE /\ issued' = issued + 1
                      /\ \E io \in {"ok", "create_err", "write_err"} :
                           CASE io = "ok" ->
                                  /\ credFile' = [ok |-> TRUE, access_token |-> issued + 1]
                                  /\ pcB' = "notify"
                             [] io = "create_err" ->
                                  /\ pcB' = "done"
                                  /\ UNCHANGED credFile
                             [] io = "write_err" ->
                                  /\ credFile' = [ok |-> FALSE, access_token |-> 0]
                                  /\ pcB' = "done"
    /\ UNCHANGED <<content, secretsOk, remote, local, hist, idxB, newB, dupB, notifiedB>>

OtherSendMessage ==
    /\ pcB = "notify"
    /\ newB # <<>>
    /\ IF ~secretsOk \/ ~credFile.ok
       THEN /\ pcB' = "done"
            /\ UNCHANGED <<newB, notifiedB>>
       ELSE \/ /\ notifiedB' = Append(notifiedB, [file |-> Head(newB), status |-> 0])
               /\ pcB' = "done"
               /\ UNCHANGED newB
            \/ \E st \in ChatStatuses :
                 /\ notifiedB' = Append(notifiedB, [file |-> Head(newB), status |-> st])
                 /\ newB' = Tail(newB)
                 /\ UNCHANGED pcB
    /\ UNCHANGED <<durable, env, local, hist, idxB, dupB>>

OtherMainReturn ==
    /\ pcB = "notify"
    /\ newB = <<>>
    /\ pcB' = "done"
    /\ UNCHANGED <<durable, env, local, hist, idxB, newB, dupB, notifiedB>>

\* Two invocations started together on a fresh table.
InitConc == InitOver(Listings, {{}}) /\ pcB = "init"

NextConc ==
    \/ Startup
    \/ FetchJson
    \/ QueryById
    \/ InsertFile
    \/ CheckDone
    \/ RefreshToken
    \/ SendMessage
    \/ MainReturn
    \/ OtherStartup
    \/ OtherFetchJson
    \/ OtherQueryById
    \/ OtherInsertFile
    \/ OtherCheckDone
    \/ OtherRefreshToken
    \/ OtherSendMessage
    \/ OtherMainReturn

SpecConc == InitConc /\ [][NextConc]_vars

\* ---------------------------------------------------------------- claims
Success(status) == status \in 200..299

\* The listing positions notified so far, in the order of the calls.
NotifiedFiles == [k \in 1..Len(notified) |-> notified[k].file]

\* C1: a run that follows a run which completed its diff pass, against the
\* same unchanged listing, sends no notification.
C1_SecondRunSilent ==
    (sameListing /\ prevDiffDone) => notified = <<>>

\* C2: once a run has finished after its diff pass (success, refresh failure
\* or notification failure), every file of the fetched listing has a row.
C2_AllFetchedRecorded ==
    (pc = "done" /\ diffDone) =>
        \A i \in 1..Len(file_list) : InsertBind(file_list[i]) \in content

C3_NotifiedWereAbsent ==
    \A k \in 1..Len(notified) :
        InsertBind(file_list[notified[k].file]) \notin contentAtStart

C3_Step ==
    /\ content \subseteq content'
    /\ \A i \in 1..Len(found') :
         i > Len(found) => InsertBind(file_list[found'[i]]) \notin content

\* C3: the registry only grows, a file whose id has a row is never reported
\* new by a diff pass, and no run notifies a file whose id had a row when the
\* run started, whatever became of the run that recorded it.
C3_AppendOnly == [] C3_NotifiedWereAbsent /\ [][C3_Step]_vars

C3_Witness ==
    /\ run > 1
    /\ prevDiffDone
    /\ prevExit # 0
    /\ pc = "done"
    /\ diffDone
    /\ Len(file_list) > 1
    /\ \A i \in 1..Len(file_list) : InsertBind(file_list[i]) \in contentAtStart
    /\ found = <<>>
    /\ notified = <<>>

\* C4: the notify calls of a run go through the new files in the reverse of
\* the order in which the diff pass found them, one call per new file, all
\* of them when the run ends with status 0.
C4_ReverseOrder ==
    /\ Len(notified) <= Len(found)
    /\ \A k \in 1..Len(notified) : notified[k].file = found[Len(found) + 1 - k]
    /\ (pc = "done" /\ exitCode = 0 /\ diffDone) => Len(notified) = Len(found)

C4_Witness ==
    /\ pc = "done"
    /\ exitCode = 0
    /\ found = <<1, 2>>
    /\ NotifiedFiles = <<2, 1>>

\* C5: refresh_token is called once in a run whose new set is not empty,
\* never in a run whose new set is empty, and never again per file.
C5_RefreshOncePerRun ==
    /\ refreshCalls <= 1
    /\ refreshCalls = 1 => (diffDone /\ found # <<>>)
    /\ (pc \in {"notify", "done"} /\ diffDone /\ found # <<>>) => refreshCalls = 1
    /\ (diffDone /\ found = <<>>) => refreshCalls = 0

C5_Witness ==
    /\ pc = "done"
    /\ refreshCalls = 1
    /\ Len(notified) >= 2

\* C6: when a run sends a notification, the credential answered by this run's
\* refresh is in credentials.json, it was saved before the first notify call,
\* and every notify call carries its access token, not the one stored when
\* the run started.
C6_FreshCredential ==
    notified # <<>> =>
        /\ granted # 0
        /\ granted # credAtStart.access_token
        /\ credFile = [ok |-> TRUE, access_token |-> granted]
        /\ \A k \in 1..Len(notified) : notified[k].token = granted
        /\ \E j \in 1..Len(events) :
             /\ events[j] = "save"
             /\ \A i \in 1..Len(events) : events[i] = "chat" => j < i

C6_Witness ==
    /\ run > 1
    /\ credAtStart.ok
    /\ credAtStart.access_token # 0
    /\ Len(notified) >= 2

\* No operation of the run failed: no panic, no insert error, no notify call
\* answered with a failure.
NoStageFailed ==
    /\ failed = {}
    /\ insertErr = {}
    /\ \A k \in 1..Len(notified) : Success(notified[k].status)

\* C7: a run ends with status 0 exactly when nothing failed at any stage
\* (fetch, lookup, insert, refresh, notification).
C7_ExitContract ==
    pc = "done" => (exitCode = 0 <=> NoStageFailed)

\* C8: with secrets.json or credentials.json missing or unparsable at the
\* start of a run, the run sends no request and writes no row.
C8_ConfigCheckedFirst ==
    (~secretsOk \/ ~credAtStart.ok) =>
        (events = <<>> /\ content = contentAtStart)

\* C9: a run whose token endpoint answered with an error response ends
\* non-zero, has sent no notification, and the ids of its pending files are
\* in the registry.
C9_RefreshErrorResponse ==
    (pc = "done" /\ tokenResp # 0 /\ ~Success(tokenResp)) =>
        /\ exitCode # 0
        /\ notified = <<>>
        /\ \A k \in 1..Len(new_files) :
             InsertBind(file_list[new_files[k]]) \in content

\* C10: a notify call that met a transport failure or a non-success response
\* is the last of its run, the run ends non-zero, and the rows inserted by
\* the diff pass stay.
C10_NotifyFailureFatal ==
    \A k \in 1..Len(notified) :
        ~Success(notified[k].status) =>
            /\ k = Len(notified)
            /\ pc = "done"
            /\ exitCode # 0
            /\ contentAtStart \subseteq content

\* An id with a character that is neither a digit nor a sign.
NonNumeric(id) == \E i \in 1..Len(id) : id[i] \notin Digits \cup {"+", "-"}

\* C11: when the listing holds two files with non-numeric ids and 0 has no
\* row, the first of them in fetch order is found new and recorded under 0,
\* the second is neither found new nor notified.
C11_NonNumericCollapse ==
    diffDone =>
        \A i, j \in 1..Len(file_list) :
            ( /\ i < j
              /\ NonNumeric(file_list[i])
              /\ NonNumeric(file_list[j])
              /\ 0 \notin contentAtStart
              /\ \A h \in 1..(i - 1) : InsertBind(file_list[h]) # 0 )
            => /\ 0 \in content
               /\ \E a \in 1..Len(found) : found[a] = i
               /\ \A a \in 1..Len(found) : found[a] # j
               /\ \A k \in 1..Len(notified) : notified[k].file # j

\* fetch_json returned a listing in this run.
Fetched == pc \notin {"init", "fetch"} /\ failed \cap {"startup", "fetch"} = {}

\* Every fetched id had a row when the run started.
AllKnown == \A i \in 1..Len(file_list) : InsertBind(file_list[i]) \in contentAtStart

NoEffect ==
    /\ content = contentAtStart
    /\ credFile = credAtStart
    /\ refreshCalls = 0
    /\ notified = <<>>

\* C12 as stated: a finished run whose fetched ids all had a row wrote
\* nothing, refreshed nothing, notified nothing and exited 0.
C12_KnownListingExitsZero ==
    (pc = "done" /\ Fetched /\ AllKnown) => (NoEffect /\ exitCode = 0)

\* C12 as amended: such a run writes nothing, refreshes nothing and notifies
\* nothing; it exits 0 unless a registry lookup failed, and then it ends
\* non-zero with the durable state still unchanged.
C12_KnownListingNoEffect ==
    (Fetched /\ AllKnown) =>
        /\ NoEffect
        /\ found = <<>>
        /\ events = <<"catalog">>
        /\ pc = "done" => (exitCode = 0 <=> "lookup" \notin failed)
        /\ diffDone => (pc = "done" /\ exitCode = 0)

C12_Witness ==
    /\ pc = "done"
    /\ exitCode = 0
    /\ Fetched
    /\ Len(file_list) = 2
    /\ file_list[1] # file_list[2]
    /\ AllKnown
    /\ NoEffect

\* C13: credentials.json holds either what it held at the start of the run
\* or the whole credential answered by the refresh, and a refresh that
\* failed left it as it was.
C13_RefreshAllOrNothing ==
    /\ credFile \in {credAtStart, [ok |-> TRUE, access_token |-> granted]}
    /\ failed \cap {"config", "refresh"} # {} => credFile = credAtStart

\* C14: every notified file has its row, and a failed insert ends the run
\* non-zero.
C14_NotifiedAreRecorded ==
    /\ \A k \in 1..Len(notified) :
         InsertBind(file_list[notified[k].file]) \in content
    /\ insertErr # {} => (pc = "done" /\ exitCode # 0)

\* C15: the diff pass finds files in fetch order, pushes a file only after
\* its lookup said absent, and an insert is only ever attempted for a key
\* that has no row.
C15_CheckThenInsert ==
    /\ pc = "insert" =>
         /\ idx \in 1..Len(file_list)
         /\ found # <<>>
         /\ found[Len(found)] = idx
         /\ InsertBind(file_list[idx]) \notin content
    /\ \A a, b \in 1..Len(found) : a < b => found[a] < found[b]
    /\ pc \in {"diff", "insert"} =>
         /\ Len(new_files) <= Len(found)
         /\ \A a \in 1..Len(new_files) : new_files[a] = found[a]

C15_Witness ==
    /\ diffDone
    /\ Len(file_list) = 2
    /\ file_list[1] = file_list[2]
    /\ found = <<1>>
    /\ insertErr = {}
    /\ InsertBind(file_list[1]) \in content

\* C18: no two notify calls of a run are for the same key.
C18_OneNotificationPerId ==
    \A k, m \in 1..Len(notified) :
        k # m => InsertBind(file_list[notified[k].file])
                   # InsertBind(file_list[notified[m].file])

\* The decimal numeral ds read as a number (negated when neg), last digit
\* first.
RECURSIVE DecimalValue(_, _)
DecimalValue(ds, neg) ==
    IF ds = <<>> THEN 0
    ELSE LET d == DigitVal(ds[Len(ds)])
             front == DecimalValue(SubSeq(ds, 1, Len(ds) - 1), neg)
         IN  front * 10 + (IF neg THEN -d ELSE d)

RECURSIVE StripZeros(_)
StripZeros(ds) ==
    IF Len(ds) > 1 /\ Head(ds) = "0" THEN StripZeros(Tail(ds)) ELSE ds

\* a <= b for two numerals of the same length, digit by digit.
RECURSIVE NumeralLeq(_, _)
NumeralLeq(a, b) ==
    \/ a = <<>>
    \/ DigitVal(Head(a)) < DigitVal(Head(b))
    \/ Head(a) = Head(b) /\ NumeralLeq(Tail(a), Tail(b))

MaxMagnitude == <<"2", "1", "4", "7", "4", "8", "3", "6", "4", "7">>
MinMagnitude == <<"2", "1", "4", "7", "4", "8", "3", "6", "4", "8">>

\* The key a file is meant to have: the value of its id when the id is a
\* numeral of a signed 32-bit integer, 0 otherwise.
ExpectedKey(id) ==
    LET signed == id # <<>> /\ Head(id) \in {"+", "-"}
        neg == id # <<>> /\ Head(id) = "-"
        ds == IF signed THEN Tail(id) ELSE id
        m == StripZeros(ds)
        numeral == ds # <<>> /\ \A i \in 1..Len(ds) : ds[i] \in Digits
        fits == \/ Len(m) < Len(MaxMagnitude)
                \/ /\ Len(m) = Len(MaxMagnitude)
                   /\ NumeralLeq(m, IF neg THEN MinMagnitude ELSE MaxMagnitude)
    IN  IF numeral /\ fits THEN DecimalValue(m, neg) ELSE 0

\* A numeral that is no signed 32-bit integer.
OutOfRange(id) == ~NonNumeric(id) /\ ExpectedKey(id) = 0 /\ id # <<"0">>

C19_Step ==
    /\ (pc = "diff" /\ idx <= Len(file_list) /\ pc' # "done") =>
          (pc' = "insert" <=> ExpectedKey(file_list[idx]) \notin content)
    /\ (pc = "insert" /\ content' # content) =>
          content' = content \cup {ExpectedKey(file_list[idx])}

\* C19: the lookup and the insert both use the id parsed as a signed 32-bit
\* integer, negative values included, and 0 for every id that does not parse,
\* whether it is not a number or a number outside the 32-bit range.
C19_StorageKey == [][C19_Step]_vars

C19_Witness ==
    /\ diffDone
    /\ Len(file_list) = 2
    /\ file_list[1] # file_list[2]
    /\ OutOfRange(file_list[1])
    /\ OutOfRange(file_list[2])
    /\ found = <<1>>
    /\ content = {0}
    /\ contentAtStart = {}

C16_Step ==
    (pc = "insert" /\ InsertBind(file_list[idx]) \in content /\ pc' # "insert") =>
        /\ content' = content
        /\ new_files' = Append(new_files, idx)
        /\ pc' = "diff"
        /\ exitCode' = exitCode

\* C16: with two overlapping invocations the lookup and the insert of one
\* file are separate steps, so an insert can meet a row the other invocation
\* wrote after the lookup; that duplicate-key failure writes nothing and does
\* not stop the run, the file is put in the new set all the same.
C16_LoserGoesOn == [][C16_Step]_vars

\* Both invocations found the same file absent, one insert lost on the
\* duplicate key, and both notified the file.
C16_Witness ==
    \E k \in 1..Len(notified), m \in 1..Len(notifiedB) :
        /\ notified[k].file = notifiedB[m].file
        /\ Success(notified[k].status)
        /\ Success(notifiedB[m].status)
        /\ notifiedB[m].file \in dupB
        /\ notified[k].file \notin insertErr

\* The pipeline state of section 4.5 that a position of main belongs to.
Stage(p) ==
    CASE p = "init" -> "Init"
      [] p = "fetch" -> "Fetching"
      [] p \in {"diff", "insert"} -> "Diffing"
      [] p \in {"refresh", "notify"} -> "Notifying"
      [] p = "done" -> "Terminal"

StageOrder ==
    { <<"Init", "Fetching">>, <<"Fetching", "Diffing">>, <<"Diffing", "Diffing">>,
      <<"Diffing", "Notifying">>, <<"Notifying", "Notifying">> }
    \cup { <<st, "Terminal">> : st \in {"Init", "Fetching", "Diffing", "Notifying"} }

\* The steps a stage still has to take at most.
Remaining ==
    CASE pc = "diff" -> 2 * (Len(file_list) + 1 - idx) + 1
      [] pc = "insert" -> 2 * (Len(file_list) + 1 - idx)
      [] pc = "refresh" -> Len(new_files) + 1
      [] pc = "notify" -> Len(new_files) + 1 - sendIdx
      [] OTHER -> 0

C17_Step ==
    /\ <<Stage(pc), Stage(pc')>> \in StageOrder
    /\ Stage(pc') = Stage(pc) => Remaining' < Remaining
    /\ pc' = "done" => exitCode' \in {0, 101}

\* C17: a run moves Init, Fetching, Diffing, then ends (Idle) or goes on to
\* Notifying, never back and never through the same step twice, and it
\* eventually ends, with status 0 or with a panic.
C17_Terminates == <>(pc = "done") /\ [][C17_Step]_vars

C17_Witness ==
    /\ pc = "done"
    /\ exitCode = 0
    /\ Len(file_list) = 2
    /\ Len(notified) = 2
    /\ contentAtStart # {}

====
